---- MODULE Spec2Model ----
(***************************************************************************)
(* Model of the AI Financial Report Analyzer (src/app.py, src/ocr.py).     *)
(*                                                                         *)
(* The program is a Streamlit script: every user interaction re-executes   *)
(* the whole script against the session state.  One action of this module  *)
(* is one interaction: the widget change made by the user followed by the  *)
(* complete script run it triggers.                                        *)
(*                                                                         *)
(* Text that the program parses or rewrites (generated analysis text, the  *)
(* assembled report, file names, cache keys) is a sequence of one-character*)
(* strings.  Text that the program only stores and forwards (the OCR text, *)
(* the cleaned document, the built-in sample) is an opaque string.         *)
(***************************************************************************)
EXTENDS Integers, Sequences, FiniteSets, TLC

(***************************************************************************)
(* Bounds                                                                  *)
(***************************************************************************)
\* byte lengths (uploaded_file.size) offered by the environment: 1..MaxSize
MaxSize == 2
\* largest number of sections selected for one "Generate Full Report" run
\* of the session (checkboxes ticked plus themes picked)
MaxSections == 1
\* largest number of themes picked when the report assembly is checked alone
MaxThemes == 2
\* longest report (in characters) when the Markdown export is checked alone
MaxReportLen == 3
\* largest number of lines of a report when the three exports are checked
MaxLines == 3

(***************************************************************************)
(* Characters and strings                                                  *)
(***************************************************************************)
DigitChars == <<"0","1","2","3","4","5","6","7","8","9">>

DigitSet == {"0","1","2","3","4","5","6","7","8","9"}

\* \d, for the characters of the model's alphabet
IsDigit(c) == c \in DigitSet

AsciiLetters ==
    {"a","b","c","d","e","f","g","h","i","j","k","l","m",
     "n","o","p","q","r","s","t","u","v","w","x","y","z",
     "A","B","C","D","E","F","G","H","I","J","K","L","M",
     "N","O","P","Q","R","S","T","U","V","W","X","Y","Z"}

\* [a-zA-Z]
IsAsciiLetter(c) == c \in AsciiLetters

\* s[i..] starts with the literal w
HasAt(s, i, w) ==
    /\ i + Len(w) - 1 <= Len(s)
    /\ SubSeq(s, i, i + Len(w) - 1) = w

\* str(n) for a non-negative integer: its decimal digits
RECURSIVE IntToStr(_)
IntToStr(n) ==
    IF n < 10 THEN <<DigitChars[n + 1]>>
    ELSE IntToStr(n \div 10) \o <<DigitChars[(n % 10) + 1]>>

\* Python's None and a present value
None == <<>>
Some(v) == <<v>>

(***************************************************************************)
(* clean_ai_output: three regular-expression substitutions in sequence     *)
(***************************************************************************)
ScaleWords == { <<"m","i","l","l","i","o","n">>,
                <<"b","i","l","l","i","o","n">>,
                <<"t","h","o","u","s","a","n","d">> }

PercentWord == <<"p","e","r","c","e","n","t">>

\* the least element of a non-empty set of integers
Min(S) == CHOOSE x \in S : \A y \in S : x <= y

\* first position >= i that does not hold a digit (\d* from i, greedy)
RECURSIVE DigitsEnd(_, _)
DigitsEnd(s, i) ==
    IF i <= Len(s) /\ IsDigit(s[i]) THEN DigitsEnd(s, i + 1) ELSE i

\* position after the longest match of \d+\.?\d* that starts at the digit
\* s[i].  The word that must follow starts with a letter, so no shorter
\* match of the number can succeed where the longest one fails.
NumberEnd(s, i) ==
    LET j1 == DigitsEnd(s, i)
        j2 == IF j1 <= Len(s) /\ s[j1] = "." THEN j1 + 1 ELSE j1
    IN  DigitsEnd(s, j2)

\* re.sub scans from the left: the first of the positions c where the
\* pattern matches, or 0 when it matches nowhere
FirstMatch(c) == IF c = {} THEN 0 ELSE Min(c)

\* \$(\d+\.?\d*)(million|billion|thousand) matches at i
MatchScale(s, i) ==
    /\ s[i] = "$"
    /\ i + 1 <= Len(s)
    /\ IsDigit(s[i + 1])
    /\ \E w \in ScaleWords : HasAt(s, NumberEnd(s, i + 1), w)

\* variant: the replacement r'\1 \2', which leaves out the '$'
RECURSIVE SubScaleFrom_DropDollar(_, _)
SubScaleFrom_DropDollar(s, i) ==
    LET m == FirstMatch({ j \in i..Len(s) : MatchScale(s, j) })
    IN  IF m = 0 THEN SubSeq(s, i, Len(s))
        ELSE LET e == NumberEnd(s, m + 1)
                 w == CHOOSE x \in ScaleWords : HasAt(s, e, x)
             IN  SubSeq(s, i, m - 1) \o SubSeq(s, m + 1, e - 1) \o <<" ">> \o w
                     \o SubScaleFrom_DropDollar(s, e + Len(w))

\* re.sub(r'\$(\d+\.?\d*)(million|billion|thousand)', r'$\1 \2', text):
\* the text up to the match is copied, the match is replaced, and the scan
\* goes on after the match
RECURSIVE SubScaleFrom(_, _)
SubScaleFrom(s, i) ==
    LET m == FirstMatch({ j \in i..Len(s) : MatchScale(s, j) })
    IN  IF m = 0 THEN SubSeq(s, i, Len(s))
        ELSE LET e == NumberEnd(s, m + 1)
                 w == CHOOSE x \in ScaleWords : HasAt(s, e, x)
             IN  SubSeq(s, i, e - 1) \o <<" ">> \o w
                     \o SubScaleFrom(s, e + Len(w))

\* (\d+\.?\d*)percent matches at i
MatchPercent(s, i) ==
    IsDigit(s[i]) /\ HasAt(s, NumberEnd(s, i), PercentWord)

\* re.sub(r'(\d+\.?\d*)percent', r'\1 percent', text)
RECURSIVE SubPercentFrom(_, _)
SubPercentFrom(s, i) ==
    LET m == FirstMatch({ j \in i..Len(s) : MatchPercent(s, j) })
    IN  IF m = 0 THEN SubSeq(s, i, Len(s))
        ELSE LET e == NumberEnd(s, m)
             IN  SubSeq(s, i, e - 1) \o <<" ">> \o PercentWord
                     \o SubPercentFrom(s, e + Len(PercentWord))

\* variant: (\d)(\w), the second character may be a digit as well
MatchDigitLetter_WordChar(s, i) ==
    /\ IsDigit(s[i])
    /\ i + 1 <= Len(s)
    /\ (IsAsciiLetter(s[i + 1]) \/ IsDigit(s[i + 1]))

\* (\d)([a-zA-Z]) matches at i
MatchDigitLetter(s, i) ==
    IsDigit(s[i]) /\ i + 1 <= Len(s) /\ IsAsciiLetter(s[i + 1])

\* variant: re.sub(..., count=1), only the first match is replaced
SubDigitLetterFrom_FirstOnly(s, i) ==
    LET m == FirstMatch({ j \in i..Len(s) : MatchDigitLetter(s, j) })
    IN  IF m = 0 THEN SubSeq(s, i, Len(s))
        ELSE SubSeq(s, i, m) \o <<" ">> \o SubSeq(s, m + 1, Len(s))

\* re.sub(r'(\d)([a-zA-Z])', r'\1 \2', text)
RECURSIVE SubDigitLetterFrom(_, _)
SubDigitLetterFrom(s, i) ==
    LET m == FirstMatch({ j \in i..Len(s) : MatchDigitLetter(s, j) })
    IN  IF m = 0 THEN SubSeq(s, i, Len(s))
        ELSE SubSeq(s, i, m) \o <<" ", s[m + 1]>>
                 \o SubDigitLetterFrom(s, m + 2)

clean_ai_output(text) ==
    LET t1 == SubScaleFrom(text, 1)
        t2 == SubPercentFrom(t1, 1)
    IN  SubDigitLetterFrom(t2, 1)


(***************************************************************************)
(* Inputs offered by the user and the environment                          *)
(***************************************************************************)
\* names of the PDFs the user can put in the uploader (type=["pdf"])
FileNames == { <<"r",".","p","d","f">>, <<"r","_","1",".","p","d","f">> }

Files == [name : FileNames, size : 1..MaxSize]

Pages == {"About This Project", "Cleaned Text", "Executive Summary",
          "KPIs", "Thematic Summaries", "Generate Report"}

\* options of the multiselect on the "Generate Report" page
ReportThemes ==
    { <<"R","e","v","e","n","u","e"," ","&"," ","G","r","o","w","t","h">>,
      <<"P","r","o","f","i","t","a","b","i","l","i","t","y"," ","&"," ",
        "M","a","r","g","i","n","s">>,
      <<"C","a","s","h"," ","F","l","o","w"," ","&"," ",
        "L","i","q","u","i","d","i","t","y">> }

\* a multiselect value: n picked options, without repetition, in the order
\* in which the user picked them
ThemeSelections(n) ==
    { q \in [1..n -> ReportThemes] :
        \A i, j \in 1..n : i # j => q[i] # q[j] }

\* what the OCR service can do with the uploaded bytes
OcrOutcomes ==
    { [ok |-> FALSE, text |-> ""],
      [ok |-> TRUE,  text |-> "ocr text"] }

\* what client.chat.completions.create can do in the cleaning step: raise,
\* or return the cleaned document
CleanOutcomes ==
    { [ok |-> FALSE, text |-> ""],
      [ok |-> TRUE,  text |-> "cleaned text"] }

\* what client.chat.completions.create can do in an analysis call: raise,
\* return an empty completion, or return text
GenOutcomes ==
    { [ok |-> FALSE, text |-> <<>>],
      [ok |-> TRUE,  text |-> <<>>],
      [ok |-> TRUE,  text |-> <<"$","3","m","i","l","l","i","o","n">>] }

(***************************************************************************)
(* ocr.py                                                                  *)
(***************************************************************************)
\* extract_text_from_pdf: raises when the credentials are missing and when
\* the service call fails (both are ok = FALSE), otherwise returns the
\* extracted text
extract_text_from_pdf(ocr) ==
    IF ~ocr.ok THEN [raised |-> TRUE, text |-> ""]
    ELSE [raised |-> FALSE, text |-> ocr.text]

(***************************************************************************)
(* app.py: helpers                                                         *)
(***************************************************************************)
\* variant: the error message is returned in place of the empty string
safe_ai_call_ErrorText(gen) ==
    IF gen.ok THEN [text |-> gen.text, error |-> FALSE]
    ELSE [text |-> <<"e","r","r","o","r">>, error |-> TRUE]

\* safe_ai_call: the completion text, or "" after reporting the exception
safe_ai_call(gen) ==
    IF gen.ok THEN [text |-> gen.text, error |-> FALSE]
    ELSE [text |-> <<>>, error |-> TRUE]

\* variant: a key made of the name alone
FileId_NameOnly(f) == f.name

\* variant: the size enters the key in KiB
FileId_Kilobytes(f) == f.name \o <<"_">> \o IntToStr(f.size \div 1024)

\* current_file_id = f"{uploaded_file.name}_{uploaded_file.size}"
FileId(f) == f.name \o <<"_">> \o IntToStr(f.size)

\* the built-in sample document of demo mode (abbreviated to its title)
sample_text == "Financial Performance Overview ..."

sample_raw == "Sample OCR text before cleaning (with simulated artifacts)..."

(***************************************************************************)
(* str.encode("utf-8") and str.split("\n")                                 *)
(***************************************************************************)
AsciiPrintable ==
    <<" ","!","\"","#","$","%","&","'","(",")","*","+",",","-",".","/","0",
      "1","2","3","4","5","6","7","8","9",":",";","<","=",">","?","@","A",
      "B","C","D","E","F","G","H","I","J","K","L","M","N","O","P","Q","R",
      "S","T","U","V","W","X","Y","Z","[","\\","]","^","_","U+0060","a","b","c",
      "d","e","f","g","h","i","j","k","l","m","n","o","p","q","r","s","t",
      "u","v","w","x","y","z","{","|","}","~">>

\* characters written by their code point: those outside printable ASCII
\* (the backquote, U+0060, is written that way in AsciiPrintable)
OtherChars ==
    << [ch |-> "\n",       cp |-> 10],
       [ch |-> "U+00E9",   cp |-> 233],
       [ch |-> "U+20AC",   cp |-> 8364],
       [ch |-> "U+D800",   cp |-> 55296],
       [ch |-> "U+1F4CA",  cp |-> 128202] >>

\* ord(c): printable ASCII starts at 32
OrdTable ==
    [c \in { AsciiPrintable[k] : k \in 1..Len(AsciiPrintable) }
            \cup { OtherChars[k].ch : k \in 1..Len(OtherChars) } |->
        IF \E k \in 1..Len(AsciiPrintable) : AsciiPrintable[k] = c
        THEN 31 + (CHOOSE k \in 1..Len(AsciiPrintable) : AsciiPrintable[k] = c)
        ELSE OtherChars[CHOOSE k \in 1..Len(OtherChars) : OtherChars[k].ch = c].cp]

Ord(c) == OrdTable[c]

IsSurrogate(cp) == cp >= 55296 /\ cp <= 57343

\* variant: encode("ascii", errors="replace"), "?" for what is not ASCII
Utf8Bytes_Replace(cp) == IF cp < 128 THEN <<cp>> ELSE <<63>>

\* the UTF-8 bytes of one code point (a lone surrogate has none)
Utf8Bytes(cp) ==
    IF cp < 128 THEN <<cp>>
    ELSE IF cp < 2048 THEN <<192 + (cp \div 64), 128 + (cp % 64)>>
    ELSE IF cp < 65536
         THEN <<224 + (cp \div 4096), 128 + ((cp \div 64) % 64), 128 + (cp % 64)>>
    ELSE <<240 + (cp \div 262144), 128 + ((cp \div 4096) % 64),
           128 + ((cp \div 64) % 64), 128 + (cp % 64)>>

\* the bytes of the characters s[lo..hi], one character after the other
RECURSIVE Utf8Range(_, _, _)
Utf8Range(s, lo, hi) ==
    IF lo > hi THEN <<>>
    ELSE IF lo = hi THEN Utf8Bytes(Ord(s[lo]))
    ELSE LET mid == (lo + hi) \div 2
         IN  Utf8Range(s, lo, mid) \o Utf8Range(s, mid + 1, hi)

\* the characters of the model's alphabet that are lone surrogates
SurrogateChars == { c \in DOMAIN OrdTable : IsSurrogate(Ord(c)) }

\* report_md.encode("utf-8") raises UnicodeEncodeError on a lone surrogate
encode_raises(s) == \E i \in 1..Len(s) : s[i] \in SurrogateChars

\* report_md.encode("utf-8") when it does not raise
encode_utf8(s) == Utf8Range(s, 1, Len(s))

\* s.split("\n") from position i on: the pieces between the newlines
RECURSIVE SplitFrom(_, _)
SplitFrom(s, i) ==
    LET nl == { j \in i..Len(s) : s[j] = "\n" }
    IN  IF nl = {} THEN <<SubSeq(s, i, Len(s))>>
        ELSE <<SubSeq(s, i, Min(nl) - 1)>> \o SplitFrom(s, Min(nl) + 1)

\* variant: blank lines are skipped
split_lines_NoBlank(s) == SelectSeq(SplitFrom(s, 1), LAMBDA l : l # <<>>)

split_lines(s) == SplitFrom(s, 1)

(***************************************************************************)
(* State                                                                   *)
(***************************************************************************)
VARIABLES
    \* st.session_state
    structured_text,      \* cleaned document text ("" at first)
    raw_text,             \* OCR text ("" at first)
    last_file_id,         \* None, or Some(key of the last processed upload)
    processing_complete,  \* flag set with last_file_id
    demo_mode,            \* session copy of the demo checkbox
    final_report_md,      \* None while the key is absent, else Some(report)
    \* widgets, whose values persist from run to run
    demo_checkbox,        \* "Demo Mode (Use Sample Data)"
    uploaded_file,        \* value of the file uploader: None or Some(file)
    page,                 \* sidebar radio
    \* what the last script run did and displayed
    run,
    \* history: the file and the cleaned text of the last OCR+cleaning
    \* pipeline that succeeded (None before the first)
    pipeline_file,
    pipeline_text

session == <<structured_text, raw_text, last_file_id, processing_complete,
             demo_mode, final_report_md>>

vars == <<structured_text, raw_text, last_file_id, processing_complete,
          demo_mode, final_report_md, demo_checkbox, uploaded_file, page,
          run, pipeline_file, pipeline_text>>

\* the session state as one value, threaded through the blocks of the script
SessionState ==
    [structured_text |-> structured_text, raw_text |-> raw_text,
     last_file_id |-> last_file_id,
     processing_complete |-> processing_complete,
     demo_mode |-> demo_mode, final_report_md |-> final_report_md]

(***************************************************************************)
(* app.py: the blocks of the script, in execution order                    *)
(***************************************************************************)
\* variant: demo mode only sets its flag and keeps the cached texts
DemoModeBlock_KeepCached(S, checkbox) == [S EXCEPT !.demo_mode = checkbox]

\* variant: entering demo mode also drops the stored report
DemoModeBlock_DropReport(S, checkbox) ==
    IF checkbox
    THEN [S EXCEPT !.structured_text = sample_text,
                   !.raw_text = sample_raw,
                   !.demo_mode = TRUE,
                   !.final_report_md = None]
    ELSE [S EXCEPT !.demo_mode = FALSE]

\* variant: entering demo mode forgets the processed upload
DemoModeBlock_ResetKey(S, checkbox) ==
    IF checkbox
    THEN [S EXCEPT !.structured_text = sample_text,
                   !.raw_text = sample_raw,
                   !.demo_mode = TRUE,
                   !.last_file_id = None,
                   !.processing_complete = FALSE]
    ELSE [S EXCEPT !.demo_mode = FALSE]

\* DEMO MODE block: the sample overwrites the session texts
DemoModeBlock(S, checkbox) ==
    IF checkbox
    THEN [S EXCEPT !.structured_text = sample_text,
                   !.raw_text = sample_raw,
                   !.demo_mode = TRUE]
    ELSE [S EXCEPT !.demo_mode = FALSE]

\* the uploaded_file variable after the DEMO MODE block
UploadedFileOfRun(checkbox, uploader) ==
    IF checkbox THEN None ELSE uploader

\* variant: raw_text and last_file_id are written as soon as OCR returns,
\* before the cleaning call
FileProcessing_PartialWrite(S, file, ocr, clean) ==
    LET skip == [S |-> S, ocr_called |-> FALSE, clean_called |-> FALSE,
                 stopped |-> FALSE, reused |-> FALSE]
    IN
    IF file # None /\ ~S.demo_mode
    THEN LET current_file_id == FileId(file[1])
         IN  IF S.last_file_id # Some(current_file_id)
             THEN LET o == extract_text_from_pdf(ocr)
                      S1 == [S EXCEPT !.raw_text = o.text,
                                      !.last_file_id = Some(current_file_id)]
                  IN  IF o.raised
                      THEN [skip EXCEPT !.ocr_called = TRUE, !.stopped = TRUE]
                      ELSE IF ~clean.ok
                      THEN [skip EXCEPT !.S = S1,
                                        !.ocr_called = TRUE,
                                        !.clean_called = TRUE,
                                        !.stopped = TRUE]
                      ELSE [skip EXCEPT
                              !.S = [S1 EXCEPT
                                       !.structured_text = clean.text,
                                       !.processing_complete = TRUE],
                              !.ocr_called = TRUE,
                              !.clean_called = TRUE]
             ELSE [skip EXCEPT !.reused = TRUE]
    ELSE skip

\* FILE PROCESSING block
FileProcessing(S, file, ocr, clean) ==
    LET skip == [S |-> S, ocr_called |-> FALSE, clean_called |-> FALSE,
                 stopped |-> FALSE, reused |-> FALSE]
    IN
    IF file # None /\ ~S.demo_mode
    THEN LET current_file_id == FileId(file[1])
         IN  IF S.last_file_id # Some(current_file_id)
             THEN LET o == extract_text_from_pdf(ocr)
                  IN  IF o.raised
                      THEN [skip EXCEPT !.ocr_called = TRUE, !.stopped = TRUE]
                      ELSE IF ~clean.ok
                      THEN [skip EXCEPT !.ocr_called = TRUE,
                                        !.clean_called = TRUE,
                                        !.stopped = TRUE]
                      ELSE [skip EXCEPT
                              !.S = [S EXCEPT
                                       !.structured_text = clean.text,
                                       !.raw_text = o.text,
                                       !.last_file_id = Some(current_file_id),
                                       !.processing_complete = TRUE],
                              !.ocr_called = TRUE,
                              !.clean_called = TRUE]
             ELSE [skip EXCEPT !.reused = TRUE]
    ELSE skip

\* one analysis call as the run records it
CallRecord(op, theme, gen) ==
    [op |-> op, theme |-> theme, failed |-> safe_ai_call(gen).error,
     answer |-> safe_ai_call(gen).text]

\* the button handlers of the pages "Executive Summary", "KPIs" and
\* "Thematic Summaries": one call; a non-empty answer is cleaned and shown
AnalysisHandler(op, gen) ==
    LET text == safe_ai_call(gen).text
    IN  [calls |-> <<CallRecord(op, <<>>, gen)>>,
         shown |-> IF text # <<>> THEN Some(clean_ai_output(text)) ELSE None]

ExecHeading ==
    <<"#","#"," ","E","x","e","c","u","t","i","v","e"," ",
      "S","u","m","m","a","r","y","\n">>

KpiHeading ==
    <<"#","#"," ","K","e","y"," ","M","e","t","r","i","c","s","\n">>

\* f"## {theme}\n"
ThemeHeading(theme) == <<"#","#"," ">> \o theme \o <<"\n">>

\* variant: the heading is written before the answer is looked at
AppendSection_HeadingAlways(full_report, heading, text) ==
    IF text # <<>>
    THEN full_report \o heading \o clean_ai_output(text) \o <<"\n","\n">>
    ELSE full_report \o heading

\* if text: full_report += heading + clean_ai_output(text) + "\n\n"
AppendSection(full_report, heading, text) ==
    IF text # <<>>
    THEN full_report \o heading \o clean_ai_output(text) \o <<"\n","\n">>
    ELSE full_report

\* variant: the thematic sections are appended last theme first
RECURSIVE ThemeLoop_Reversed(_, _, _, _, _)
ThemeLoop_Reversed(include_themes, k, gen, base, full_report) ==
    IF k > Len(include_themes) THEN full_report
    ELSE AppendSection(ThemeLoop_Reversed(include_themes, k + 1, gen, base,
                                          full_report),
                       ThemeHeading(include_themes[k]),
                       safe_ai_call(gen[base + k]).text)

\* for theme in include_themes: ... (gen[base + k] answers the k-th theme)
RECURSIVE ThemeLoop(_, _, _, _, _)
ThemeLoop(include_themes, k, gen, base, full_report) ==
    IF k > Len(include_themes) THEN full_report
    ELSE ThemeLoop(include_themes, k + 1, gen, base,
                   AppendSection(full_report, ThemeHeading(include_themes[k]),
                                 safe_ai_call(gen[base + k]).text))

\* the number of analysis calls of a "Generate Full Report" run
NumOps(sel) ==
    (IF sel.include_exec THEN 1 ELSE 0) + (IF sel.include_kpis THEN 1 ELSE 0)
        + Len(sel.include_themes)

\* if include: <call k>; if text: full_report += heading + ...
Section(include, full_report, heading, gen, k) ==
    IF include
    THEN AppendSection(full_report, heading, safe_ai_call(gen[k]).text)
    ELSE full_report

\* the "Generate Full Report" handler: the report is built from the empty
\* string, section kind by section kind
GenerateFullReport(sel, gen) ==
    LET n1 == IF sel.include_exec THEN 1 ELSE 0
        n2 == n1 + (IF sel.include_kpis THEN 1 ELSE 0)
        r1 == Section(sel.include_exec, <<>>, ExecHeading, gen, 1)
        r2 == Section(sel.include_kpis, r1, KpiHeading, gen, n2)
        r3 == ThemeLoop(sel.include_themes, 1, gen, n2, r2)
        c1 == IF sel.include_exec
              THEN <<CallRecord("Report: Executive Summary", <<>>, gen[1])>>
              ELSE <<>>
        c2 == IF sel.include_kpis
              THEN <<CallRecord("Report: KPIs", <<>>, gen[n2])>>
              ELSE <<>>
        c3 == [k \in 1..Len(sel.include_themes) |->
                 CallRecord("Report: theme", sel.include_themes[k], gen[n2 + k])]
    IN  [full_report |-> r3, calls |-> c1 \o c2 \o c3]

NoButton == "none"

\* a single-analysis page after its handler a: the session is not written
AnalysisPage(S, a) == [S |-> S, calls |-> a.calls, shown |-> a.shown]

\* variant: the new report is added to the stored one
ReportPage_Append(S, g) ==
    [S |-> [S EXCEPT !.final_report_md =
                IF S.final_report_md = None THEN Some(g.full_report)
                ELSE Some(S.final_report_md[1] \o g.full_report)],
     calls |-> g.calls, shown |-> None]

\* st.session_state["final_report_md"] = full_report
ReportPage(S, g) ==
    [S |-> [S EXCEPT !.final_report_md = Some(g.full_report)],
     calls |-> g.calls, shown |-> None]

\* the page blocks, executed when structured_text is not empty (shown is the
\* analysis text a single-analysis page displays; the preview of the report
\* page displays final_report_md)
PagesBlock(S, pg, btn, sel, gen) ==
    IF pg = "Executive Summary" /\ btn = "Generate Summary"
    THEN AnalysisPage(S, AnalysisHandler("Executive Summary Generation", gen[1]))
    ELSE IF pg = "KPIs" /\ btn = "Extract KPIs"
    THEN AnalysisPage(S, AnalysisHandler("KPI Extraction", gen[1]))
    ELSE IF pg = "Thematic Summaries" /\ btn = "Generate Thematic Summary"
    THEN AnalysisPage(S, AnalysisHandler("Thematic Analysis", gen[1]))
    ELSE IF pg = "Generate Report" /\ btn = "Generate Full Report"
    THEN ReportPage(S, GenerateFullReport(sel, gen))
    ELSE [S |-> S, calls |-> <<>>, shown |-> None]

\* the document libraries while the exports are prepared: "raise" is an
\* exception of python-docx or reportlab
ExportFaults == {"none", "raise"}

NoExport == [status |-> "none", report_md |-> None]

\* variant: the except handler drops the stored report
DownloadSection_Discard(S, fault) ==
    IF S.final_report_md # None /\ S.final_report_md[1] # <<>>
    THEN LET report_md == S.final_report_md[1]
             error == IF encode_raises(report_md) THEN "md" ELSE fault
         IN  [S |-> IF error = "none" THEN S
                    ELSE [S EXCEPT !.final_report_md = None],
              export |-> [status |-> IF error = "none" THEN "ok" ELSE "failed",
                          report_md |-> Some(report_md)]]
    ELSE [S |-> S, export |-> NoExport]

\* DOWNLOAD SECTION: report_md is read once from the session; the three
\* exports are prepared from it inside one try block, Markdown first, then
\* Word, then PDF; the download buttons come last; the except handler only
\* reports the error.  The exports themselves are functions of report_md
\* (encode_utf8, split_lines) and are not kept in the state.
DownloadSection(S, fault) ==
    IF S.final_report_md # None /\ S.final_report_md[1] # <<>>
    THEN LET report_md == S.final_report_md[1]
             error == IF encode_raises(report_md) THEN "md" ELSE fault
         IN  [S |-> S,
              export |-> [status |-> IF error = "none" THEN "ok" ELSE "failed",
                          report_md |-> Some(report_md)]]
    ELSE [S |-> S, export |-> NoExport]

(***************************************************************************)
(* One script run                                                          *)
(***************************************************************************)
\* does the run reach the OCR call?
ReachesOcr(checkbox, uploader) ==
    LET S == DemoModeBlock(SessionState, checkbox)
        file == UploadedFileOfRun(checkbox, uploader)
    IN  /\ file # None
        /\ ~S.demo_mode
        /\ S.last_file_id # Some(FileId(file[1]))

IdleOcr == [ok |-> FALSE, text |-> ""]
IdleClean == [ok |-> FALSE, text |-> ""]

\* the outcomes the environment can give to the calls the run makes
OcrChoices(checkbox, uploader) ==
    IF ReachesOcr(checkbox, uploader) THEN OcrOutcomes ELSE {IdleOcr}

CleanChoices(checkbox, uploader, ocr) ==
    IF ReachesOcr(checkbox, uploader) /\ ~extract_text_from_pdf(ocr).raised
    THEN CleanOutcomes ELSE {IdleClean}

GenChoices(btn, sel) ==
    IF btn = NoButton THEN { <<>> }
    ELSE IF btn = "Generate Full Report" THEN [1..NumOps(sel) -> GenOutcomes]
    ELSE [1..1 -> GenOutcomes]

NoSelection ==
    [include_exec |-> FALSE, include_kpis |-> FALSE, include_themes |-> <<>>]

\* the section widgets of the "Generate Report" page with at most n
\* sections selected
Selections(n) ==
    UNION { [include_exec : BOOLEAN, include_kpis : BOOLEAN,
             include_themes : ThemeSelections(k)] : k \in 0..n }

SessionSelections == { sel \in Selections(MaxSections) : NumOps(sel) <= MaxSections }

\* the script from its first line to the end of the page blocks; st.stop()
\* in the FILE PROCESSING block ends the run there
RunToPages(checkbox, uploader, pg, btn, sel, ocr, clean, gen) ==
    LET S1 == DemoModeBlock(SessionState, checkbox)
        file == UploadedFileOfRun(checkbox, uploader)
        fp == FileProcessing(S1, file, ocr, clean)
    IN  [file |-> file, fp |-> fp,
         pb |-> IF ~fp.stopped /\ fp.S.structured_text # ""
                THEN PagesBlock(fp.S, pg, btn, sel, gen)
                ELSE [S |-> fp.S, calls |-> <<>>, shown |-> None]]

\* the faults that can hit the export step of this run
FaultChoices(r) ==
    IF ~r.fp.stopped /\ r.pb.S.final_report_md # None
          /\ r.pb.S.final_report_md[1] # <<>>
    THEN ExportFaults ELSE {"none"}

\* the rest of the run: the DOWNLOAD SECTION, skipped after st.stop()
RunToEnd(r, fault) ==
    IF r.fp.stopped
    THEN [S |-> r.pb.S, export |-> NoExport]
    ELSE DownloadSection(r.pb.S, fault)

\* the record kept of a run
RunRecord(r, dl) ==
    [ocr_called |-> r.fp.ocr_called,
     clean_called |-> r.fp.clean_called,
     stopped |-> r.fp.stopped,
     reused |-> r.fp.reused,
     calls |-> r.pb.calls,
     shown |-> r.pb.shown,
     export |-> dl.export]

\* a user interaction: the widget values it leaves, then the whole script
\* run, with every outcome the external services can produce
Interaction(checkbox, uploader, pg, btn, sel) ==
    \E ocr \in OcrChoices(checkbox, uploader) :
    \E clean \in CleanChoices(checkbox, uploader, ocr) :
    \E gen \in GenChoices(btn, sel) :
    \E r \in {RunToPages(checkbox, uploader, pg, btn, sel, ocr, clean, gen)} :
    \E fault \in FaultChoices(r) :
    \E dl \in {RunToEnd(r, fault)} :
        /\ structured_text' = dl.S.structured_text
        /\ raw_text' = dl.S.raw_text
        /\ last_file_id' = dl.S.last_file_id
        /\ processing_complete' = dl.S.processing_complete
        /\ demo_mode' = dl.S.demo_mode
        /\ final_report_md' = dl.S.final_report_md
        /\ demo_checkbox' = checkbox
        /\ uploaded_file' = r.file
        /\ page' = pg
        /\ run' = RunRecord(r, dl)
        /\ pipeline_file' =
             IF r.fp.ocr_called /\ ~r.fp.stopped THEN r.file ELSE pipeline_file
        /\ pipeline_text' =
             IF r.fp.ocr_called /\ ~r.fp.stopped THEN Some(clean.text)
             ELSE pipeline_text

(***************************************************************************)
(* Initial state and user interactions                                     *)
(***************************************************************************)
\* the state after the first run of a fresh session: the SESSION STATE
\* INITIALIZATION defaults, demo mode off, nothing uploaded, first page
Init ==
    /\ structured_text = ""
    /\ raw_text = ""
    /\ last_file_id = None
    /\ processing_complete = FALSE
    /\ demo_mode = FALSE
    /\ final_report_md = None
    /\ demo_checkbox = FALSE
    /\ uploaded_file = None
    /\ page = "About This Project"
    /\ run = [ocr_called |-> FALSE, clean_called |-> FALSE,
              stopped |-> FALSE, reused |-> FALSE, calls |-> <<>>,
              shown |-> None, export |-> NoExport]
    /\ pipeline_file = None
    /\ pipeline_text = None

\* were the page blocks (and so the page's button) rendered by the last run?
PagesRendered == ~run.stopped /\ structured_text # ""

\* the user puts a file in the uploader (shown only while demo mode is off)
Upload ==
    /\ ~demo_checkbox
    /\ \E f \in Files :
         Interaction(demo_checkbox, Some(f), page, NoButton, NoSelection)

\* the user removes the file from the uploader
RemoveFile ==
    /\ ~demo_checkbox
    /\ uploaded_file # None
    /\ Interaction(demo_checkbox, None, page, NoButton, NoSelection)

\* the user ticks or unticks the demo checkbox; the uploader is not rendered
\* in demo mode and comes back empty
ToggleDemo ==
    \E checkbox \in {~demo_checkbox} :
        Interaction(checkbox, None, page, NoButton, NoSelection)

\* the user picks another page in the sidebar
ChangePage ==
    \E pg \in Pages \ {page} :
        Interaction(demo_checkbox, uploaded_file, pg, NoButton, NoSelection)

\* the user presses the button of one of the three single-analysis pages
PressAnalysis ==
    /\ PagesRendered
    /\ \E btn \in {"Generate Summary", "Extract KPIs", "Generate Thematic Summary"} :
         /\ page = (CASE btn = "Generate Summary" -> "Executive Summary"
                      [] btn = "Extract KPIs" -> "KPIs"
                      [] OTHER -> "Thematic Summaries")
         /\ Interaction(demo_checkbox, uploaded_file, page, btn,
                        NoSelection)

\* the user sets the section widgets and presses "Generate Full Report"
PressGenerate ==
    /\ PagesRendered
    /\ page = "Generate Report"
    /\ \E sel \in SessionSelections :
         Interaction(demo_checkbox, uploaded_file, page,
                     "Generate Full Report", sel)

\* the user presses one of the download buttons, which reruns the script
PressDownload ==
    /\ run.export.status = "ok"
    /\ Interaction(demo_checkbox, uploaded_file, page, NoButton,
                   NoSelection)

Next ==
    \/ Upload
    \/ RemoveFile
    \/ ToggleDemo
    \/ ChangePage
    \/ PressAnalysis
    \/ PressGenerate
    \/ PressDownload

Spec == Init /\ [][Next]_vars

(***************************************************************************)
(* Properties of the session (specification Spec)                          *)
(***************************************************************************)
\* C1: in every run with demo mode off and a file in the uploader, OCR is
\* invoked if and only if the file's (name, size) differs from that of the
\* most recent successfully processed upload (pipeline_file, None before
\* the first); cleaning is invoked only after OCR.
C1_OcrIffKeyDiffers ==
    [][ (~demo_checkbox' /\ uploaded_file' # None)
            => /\ run'.ocr_called <=> (pipeline_file # uploaded_file')
               /\ run'.clean_called => run'.ocr_called
               /\ run'.reused <=> ~run'.ocr_called ]_vars

\* C1 witness: with an upload cached, a file of the same name and another
\* size is in the uploader and OCR was invoked for it
C1_Witness ==
    /\ run.ocr_called
    /\ pipeline_file # None
    /\ uploaded_file # None
    /\ uploaded_file # pipeline_file
    /\ uploaded_file[1].name = pipeline_file[1].name

\* C2: whenever a run finds the upload's key equal to last_file_id and
\* skips OCR and cleaning, the structured text it reuses is the text the
\* OCR -> clean pipeline produced for the file with that key.
C2_ReusedTextIsPipelineText ==
    run.reused =>
        /\ last_file_id = Some(FileId(uploaded_file[1]))
        /\ pipeline_file = uploaded_file
        /\ Some(structured_text) = pipeline_text

\* C3: in every run with the demo checkbox enabled no OCR call and no
\* cleaning call is made, the key check is not reached, and the session's
\* structured text is the built-in sample, whatever was cached before.
C3_DemoBypassesPipeline ==
    demo_checkbox =>
        /\ ~run.ocr_called
        /\ ~run.clean_called
        /\ ~run.reused
        /\ demo_mode
        /\ structured_text = sample_text

\* C3 witness: demo mode is on in a session that has a cached upload
C3_Witness ==
    /\ demo_checkbox
    /\ last_file_id # None
    /\ pipeline_text # None
    /\ pipeline_text # Some(sample_text)

\* C4: in the first run after demo mode is turned off, the structured text
\* is the text of the upload cached before demo mode was enabled (when
\* there is one).
C4_CachedTextBackAfterDemo ==
    [][ (demo_checkbox /\ ~demo_checkbox' /\ pipeline_text # None)
            => Some(structured_text') = pipeline_text ]_vars

\* C5: after a run in which OCR or cleaning failed, an interaction that is
\* not an upload (here: the user changes the sidebar page) does not invoke
\* the OCR service again.
C5_NoRetryWithoutUpload ==
    [][ (run.ocr_called /\ run.stopped /\ page' # page)
            => ~run'.ocr_called ]_vars

\* C6: a run that reaches the pipeline either overwrites structured_text,
\* raw_text, last_file_id and processing_complete together (OCR and cleaning
\* succeeded) or leaves all four unchanged (OCR failed, or cleaning failed);
\* the stored key is always the key of the last file whose pipeline
\* succeeded.
C6_CacheUpdateAtomic ==
    [][ /\ run'.ocr_called =>
              IF run'.stopped
              THEN UNCHANGED <<structured_text, raw_text, last_file_id,
                               processing_complete>>
              ELSE /\ run'.clean_called
                   /\ Some(structured_text') = pipeline_text'
                   /\ \E o \in OcrOutcomes :
                        /\ ~extract_text_from_pdf(o).raised
                        /\ raw_text' = extract_text_from_pdf(o).text
                   /\ last_file_id' = Some(FileId(uploaded_file'[1]))
                   /\ processing_complete'
        /\ IF pipeline_file' = None
           THEN last_file_id' = None /\ ~processing_complete'
           ELSE /\ last_file_id' = Some(FileId(pipeline_file'[1]))
                /\ processing_complete' ]_vars

\* C6 witness: cleaning failed for a new file while another upload is
\* cached, and the cache still holds the other upload
C6_Witness ==
    /\ run.ocr_called
    /\ run.clean_called
    /\ run.stopped
    /\ uploaded_file # None
    /\ last_file_id # None
    /\ last_file_id # Some(FileId(uploaded_file[1]))

AnalysisOps ==
    {"Executive Summary Generation", "KPI Extraction", "Thematic Analysis"}

\* C7: an analysis action whose generation call fails gets the empty string
\* from safe_ai_call and shows nothing; no analysis action changes the
\* session state; and every analysis action, the "Executive Summary" one
\* after a failed "KPI" one included, issues exactly its own call and shows
\* its cleaned result.  The pages stay rendered after a failed call.
C7_GenerationFailureNonFatal ==
    [][ /\ (Len(run'.calls) = 1 /\ run'.calls[1].op \in AnalysisOps) =>
              LET c == run'.calls[1]
              IN  /\ UNCHANGED session
                  /\ ~run'.stopped
                  /\ c.failed => c.answer = <<>>
                  /\ c.answer = <<>> => run'.shown = None
                  /\ c.answer # <<>> =>
                        run'.shown = Some(clean_ai_output(c.answer))
                  /\ page' = "Executive Summary" <=>
                        c.op = "Executive Summary Generation"
                  /\ page' = "KPIs" <=> c.op = "KPI Extraction"
        /\ (Len(run.calls) = 1 /\ run.calls[1].op = "KPI Extraction"
              /\ run.calls[1].failed /\ page' = "Executive Summary")
              => /\ ~run'.stopped
                 /\ structured_text' # ""
                 /\ UNCHANGED session ]_vars

\* C7 witness: the "KPI" action has just failed: nothing is shown and the
\* document is still in the session with its pages rendered
C7_Witness ==
    /\ Len(run.calls) = 1
    /\ run.calls[1].op = "KPI Extraction"
    /\ run.calls[1].failed
    /\ run.shown = None
    /\ PagesRendered
    /\ last_file_id # None

\* C8: a run whose export preparation raised leaves final_report_md as it
\* was read, and a later run (the user changes the page) prepares the
\* exports again from the same report without any generation call.
C8_ExportFailureKeepsReport ==
    [][ run.export.status = "failed" =>
            /\ final_report_md = run.export.report_md
            /\ (page' # page /\ ~run'.stopped) =>
                  /\ run'.export.status # "none"
                  /\ run'.export.report_md = run.export.report_md
                  /\ run'.calls = <<>> ]_vars

\* C8 witness: the export preparation failed in a run that generated
\* nothing, on a report stored by an earlier run
C8_Witness ==
    /\ run.export.status = "failed"
    /\ run.calls = <<>>
    /\ final_report_md # None
    /\ Len(final_report_md[1]) > 0

(***************************************************************************)
(* The "Generate Full Report" handler alone (specification SpecAssemble):  *)
(* the section widgets and the answers of the generation calls are drawn   *)
(* by the initial predicate, the handler is applied once.                  *)
(***************************************************************************)
InitAssemble ==
    /\ structured_text = "cleaned text"
    /\ raw_text = "ocr text"
    /\ last_file_id = None
    /\ processing_complete = FALSE
    /\ demo_mode = FALSE
    /\ final_report_md = None
    /\ demo_checkbox = FALSE
    /\ uploaded_file = None
    /\ page = "Generate Report"
    /\ \E sel \in Selections(MaxThemes) :
       \E gen \in [1..NumOps(sel) -> GenOutcomes] :
           run = [sel |-> sel, gen |-> gen, calls |-> <<>>]
    /\ pipeline_file = None
    /\ pipeline_text = None

\* "Generate Full Report" is pressed
AssembleReport ==
    /\ final_report_md = None
    /\ \E g \in {GenerateFullReport(run.sel, run.gen)} :
         /\ final_report_md' = Some(g.full_report)
         /\ run' = [run EXCEPT !.calls = g.calls]
    /\ UNCHANGED <<structured_text, raw_text, last_file_id,
                   processing_complete, demo_mode, demo_checkbox,
                   uploaded_file, page, pipeline_file, pipeline_text>>

NextAssemble == AssembleReport

SpecAssemble == InitAssemble /\ [][NextAssemble]_vars

\* the "## ..." lines of a report, in their order
HeadingLines(report) ==
    SelectSeq(split_lines(report), LAMBDA l : HasAt(l, 1, <<"#","#"," ">>))

\* did the k-th generation call answer with text?
Answered(gen, k) == gen[k].ok /\ gen[k].text # <<>>

\* a heading without its line end
Title(heading) == SubSeq(heading, 1, Len(heading) - 1)

\* the headings of the sections that got text: Executive Summary, then Key
\* Metrics, then the themes in the order of the multiselect
ExpectedHeadings(sel, gen) ==
    LET n1 == IF sel.include_exec THEN 1 ELSE 0
        n2 == n1 + (IF sel.include_kpis THEN 1 ELSE 0)
        picked == SelectSeq([k \in 1..Len(sel.include_themes) |-> k],
                            LAMBDA k : Answered(gen, n2 + k))
    IN  (IF sel.include_exec /\ Answered(gen, 1)
         THEN <<Title(ExecHeading)>> ELSE <<>>)
        \o (IF sel.include_kpis /\ Answered(gen, n2)
            THEN <<Title(KpiHeading)>> ELSE <<>>)
        \o [i \in 1..Len(picked) |->
              Title(ThemeHeading(sel.include_themes[picked[i]]))]

\* C9: the section headings of the assembled report are, in this order, the
\* Executive Summary heading, the Key Metrics heading and the headings of
\* the themes in the order of the user's selection (each one present when
\* its section is selected and got text).
C9_SectionOrder ==
    final_report_md # None =>
        HeadingLines(final_report_md[1]) = ExpectedHeadings(run.sel, run.gen)

\* C9 witness: a report with both fixed sections and two thematic sections
C9_Witness ==
    /\ final_report_md # None
    /\ Len(run.sel.include_themes) = 2
    /\ Len(HeadingLines(final_report_md[1])) = 4

(***************************************************************************)
(* The Markdown export alone (specification SpecExport): the stored report *)
(* is drawn by the initial predicate, the export is prepared once.         *)
(***************************************************************************)
\* characters of one, two, three and four UTF-8 bytes, the line end, and a
\* lone surrogate
ReportAlphabet == {"#", "a", "\n", "U+00E9", "U+20AC", "U+1F4CA", "U+D800"}

InitExport ==
    /\ structured_text = "cleaned text"
    /\ raw_text = "ocr text"
    /\ last_file_id = None
    /\ processing_complete = FALSE
    /\ demo_mode = FALSE
    /\ \E n \in 1..MaxReportLen :
       \E report \in [1..n -> ReportAlphabet] :
           final_report_md = Some(report)
    /\ demo_checkbox = FALSE
    /\ uploaded_file = None
    /\ page = "Generate Report"
    /\ run = [md_bytes |-> None, failed |-> FALSE]
    /\ pipeline_file = None
    /\ pipeline_text = None

\* md_bytes = report_md.encode("utf-8"), inside the try block
ExportMarkdown ==
    /\ run.md_bytes = None
    /\ ~run.failed
    /\ run' = IF encode_raises(final_report_md[1])
              THEN [md_bytes |-> None, failed |-> TRUE]
              ELSE [md_bytes |-> Some(encode_utf8(final_report_md[1])),
                    failed |-> FALSE]
    /\ UNCHANGED <<structured_text, raw_text, last_file_id,
                   processing_complete, demo_mode, final_report_md,
                   demo_checkbox, uploaded_file, page, pipeline_file,
                   pipeline_text>>

NextExport == ExportMarkdown

SpecExport == InitExport /\ [][NextExport]_vars

\* chr(cp), for the characters of the model's alphabet
ChrTable ==
    [cp \in { OrdTable[c] : c \in DOMAIN OrdTable } |->
        CHOOSE c \in DOMAIN OrdTable : OrdTable[c] = cp]

Chr(cp) == ChrTable[cp]

\* bytes.decode("utf-8") from byte i on, for well-formed input
RECURSIVE DecodeFrom(_, _)
DecodeFrom(b, i) ==
    IF i > Len(b) THEN <<>>
    ELSE IF b[i] < 128
         THEN <<Chr(b[i])>> \o DecodeFrom(b, i + 1)
    ELSE IF b[i] < 224
         THEN <<Chr((b[i] - 192) * 64 + (b[i + 1] - 128))>>
                  \o DecodeFrom(b, i + 2)
    ELSE IF b[i] < 240
         THEN <<Chr((b[i] - 224) * 4096 + (b[i + 1] - 128) * 64
                        + (b[i + 2] - 128))>>
                  \o DecodeFrom(b, i + 3)
    ELSE <<Chr((b[i] - 240) * 262144 + (b[i + 1] - 128) * 4096
                   + (b[i + 2] - 128) * 64 + (b[i + 3] - 128))>>
             \o DecodeFrom(b, i + 4)

Utf8Decode(b) == DecodeFrom(b, 1)

\* C10: whenever the Markdown export produces bytes, these bytes decoded as
\* UTF-8 are the report string, character for character.
C10_MarkdownRoundTrip ==
    run.md_bytes # None => Utf8Decode(run.md_bytes[1]) = final_report_md[1]

\* C10 witness: the bytes of a report that holds a character of more than
\* one byte and a line end
C10_Witness ==
    /\ run.md_bytes # None
    /\ Len(run.md_bytes[1]) > Len(final_report_md[1])
    /\ \E i \in 1..Len(final_report_md[1]) : final_report_md[1][i] = "\n"

(***************************************************************************)
(* create_professional_pdf: the story built from the lines of the report   *)
(***************************************************************************)
\* characters removed by str.strip()
WhitespaceChars == {" ", "\t", "\r", "\n"}

\* line.strip()
Strip(s) ==
    LET keep == { j \in 1..Len(s) : s[j] \notin WhitespaceChars }
    IN  IF keep = {} THEN <<>>
        ELSE SubSeq(s, Min(keep), CHOOSE x \in keep : \A y \in keep : y <= x)

\* '|' in line
Contains(s, c) == \E j \in 1..Len(s) : s[j] = c

\* line.split('|') from position i on
RECURSIVE SplitOnFrom(_, _, _)
SplitOnFrom(s, i, sep) ==
    LET at == { j \in i..Len(s) : s[j] = sep }
    IN  IF at = {} THEN <<SubSeq(s, i, Len(s))>>
        ELSE <<SubSeq(s, i, Min(at) - 1)>> \o SplitOnFrom(s, Min(at) + 1, sep)

\* variant: the cells are kept as split, without strip()
TableCells_Unstripped(line) ==
    SelectSeq(SplitOnFrom(line, 1, "|"), LAMBDA c : Strip(c) # <<>>)

\* cells = [cell.strip() for cell in line.split('|')]
\* cells = [c for c in cells if c]
TableCells(line) ==
    LET raw == SplitOnFrom(line, 1, "|")
    IN  SelectSeq([k \in 1..Len(raw) |-> Strip(raw[k])], LAMBDA c : c # <<>>)

\* the flowables appended to the story; line is the index of the input line
\* a flowable comes from (0 for the title page, the first row's line for a
\* table and for the spacer that follows it)
Paragraph(text, style, line) ==
    [kind |-> "Paragraph", style |-> style, text |-> text, line |-> line]

Spacer(height, line) == [kind |-> "Spacer", height |-> height, line |-> line]

Table(table_data, line) ==
    [kind |-> "Table", data |-> table_data, line |-> line]

HRFlowable == [kind |-> "HRFlowable", line |-> 0]

\* the title page; the text of the second paragraph holds datetime.now()
TitlePage ==
    << Paragraph("AI Financial Report Analysis", "title_style", 0),
       Spacer("0.2*inch", 0),
       Paragraph("Generated: <now>", "metadata_style", 0),
       Paragraph("Powered by Azure OpenAI", "metadata_style", 0),
       Spacer("0.3*inch", 0),
       HRFlowable,
       Spacer("0.3*inch", 0) >>

\* the state of the line loop
PdfStart ==
    [story |-> TitlePage, in_table |-> FALSE, table_data |-> <<>>,
     table_line |-> 0]

\* if line and not line.startswith('#'): story.append(Paragraph(...))
BodyParagraph(story, line, i) ==
    IF line # <<>> /\ ~HasAt(line, 1, <<"#">>)
    THEN Append(story, Paragraph(line, "body_style", i))
    ELSE story

\* variant: a row is kept only when it has as many cells as the first row
TableRow_RejectRagged(st, cells, i) ==
    LET open == IF st.in_table THEN st.table_data ELSE <<>>
        fits == cells # <<>> /\ (open = <<>> \/ Len(cells) = Len(open[1]))
    IN  [st EXCEPT
           !.in_table = TRUE,
           !.table_data = open \o (IF fits THEN <<cells>> ELSE <<>>),
           !.table_line = IF open = <<>> /\ fits THEN i ELSE st.table_line]

\* the table row branch
TableRow(st, cells, i) ==
    [st EXCEPT
       !.in_table = TRUE,
       !.table_data = (IF st.in_table THEN st.table_data ELSE <<>>)
                         \o (IF cells # <<>> THEN <<cells>> ELSE <<>>),
       !.table_line = IF (~st.in_table \/ st.table_data = <<>>) /\ cells # <<>>
                      THEN i ELSE st.table_line]

\* the story after the table collected so far is emitted, followed by a
\* spacer (nothing is emitted for an empty table_data)
FlushTable(st) ==
    IF st.table_data # <<>>
    THEN st.story \o << Table(st.table_data, st.table_line),
                        Spacer("0.2*inch", st.table_line) >>
    ELSE st.story

\* one pass of the body of "for line in lines"
PdfLine(st, raw, i) ==
    LET line == Strip(raw)
    IN  IF line = <<>>
        THEN [st EXCEPT !.story = Append(st.story, Spacer("0.1*inch", i))]
        ELSE IF HasAt(line, 1, <<"#","#"," ">>)
        THEN [st EXCEPT !.story =
                Append(st.story,
                       Paragraph(SubSeq(line, 4, Len(line)), "heading_style", i))]
        ELSE IF Contains(line, "|") /\ ~HasAt(line, 1, <<"|","-","-">>)
        THEN TableRow(st, TableCells(line), i)
        ELSE IF st.in_table /\ ~Contains(line, "|")
        THEN [st EXCEPT !.story = BodyParagraph(FlushTable(st), line, i),
                        !.in_table = FALSE,
                        !.table_data = <<>>]
        ELSE [st EXCEPT !.story = BodyParagraph(st.story, line, i)]

\* for line in lines
RECURSIVE PdfLoop(_, _, _)
PdfLoop(lines, i, st) ==
    IF i > Len(lines) THEN st
    ELSE PdfLoop(lines, i + 1, PdfLine(st, lines[i], i))

\* variant: a table still open at the end of the input is not emitted
RemainingTable_Skipped(st) == st.story

\* "Handle remaining table": emitted without a spacer
RemainingTable(st) ==
    IF st.in_table /\ st.table_data # <<>>
    THEN Append(st.story, Table(st.table_data, st.table_line))
    ELSE st.story

\* the story handed to pdf_doc.build
create_professional_pdf(content) ==
    RemainingTable(PdfLoop(SplitOnFrom(content, 1, "\n"), 1, PdfStart))

(***************************************************************************)
(* The three exports alone (specification SpecRender): the stored report   *)
(* is drawn by the initial predicate, every run prepares the exports.      *)
(***************************************************************************)
\* lines a report can hold: blank, heading, table rows (regular, with an
\* empty interior cell, of one column, separator, without cells), body
\* text (padded with blanks) and a line that starts with '#'
LineSamples ==
    { <<>>,
      <<"#","#"," ","K","e","y"," ","M","e","t","r","i","c","s">>,
      <<"|"," ","K","P","I"," ","|"," ","V","a","l","u","e"," ","|">>,
      <<"|"," ","R","e","v","e","n","u","e"," ","|"," ","$","4","5",".","2"," ","m","i","l","l","i","o","n"," ","|">>,
      <<"|"," ","M","a","r","g","i","n"," ","|"," ","7","1","%"," ","|">>,
      <<"|"," ","A"," ","|"," "," ","|"," ","B"," ","|">>,
      <<"|"," ","x"," ","|">>,
      <<"|","-","-","|","-","-","|">>,
      <<"|">>,
      <<" ","M","a","r","g","i","n","s"," ","h","e","l","d","."," ">>,
      <<"#"," ","T","i","t","l","e">> }

\* "\n".join(lines)
RECURSIVE JoinLines(_)
JoinLines(lines) ==
    IF Len(lines) = 1 THEN lines[1]
    ELSE lines[1] \o <<"\n">> \o JoinLines(Tail(lines))

Reports ==
    UNION { { JoinLines(ls) : ls \in [1..n -> LineSamples] } : n \in 1..MaxLines }

\* variant: the Word document of the previous run is extended
PrepareExports_Append(report_md) ==
    [md_bytes |-> encode_utf8(report_md),
     docx |-> run.docx \o split_lines(report_md),
     story |-> create_professional_pdf(report_md)]

\* the body of the try block: Markdown bytes, then the paragraphs added to
\* a new Document(), then the story of the PDF
PrepareExports(report_md) ==
    [md_bytes |-> encode_utf8(report_md),
     docx |-> split_lines(report_md),
     story |-> create_professional_pdf(report_md)]

InitRender ==
    /\ structured_text = "cleaned text"
    /\ raw_text = "ocr text"
    /\ last_file_id = None
    /\ processing_complete = FALSE
    /\ demo_mode = FALSE
    /\ \E report \in Reports : final_report_md = Some(report)
    /\ demo_checkbox = FALSE
    /\ uploaded_file = None
    /\ page = "Generate Report"
    /\ run = [rendered |-> FALSE, report_md |-> None, md_bytes |-> <<>>,
              docx |-> <<>>, story |-> <<>>, buttons |-> <<>>,
              error |-> "none"]
    /\ pipeline_file = None
    /\ pipeline_text = None

\* the step of the try block at which python-docx or reportlab raises
RenderFaults == {"docx", "pdf"}

\* variant: each download button is created as soon as its data is built
DownloadTry_ButtonPerFormat(e, fault) ==
    IF fault = "docx"
    THEN [md_bytes |-> e.md_bytes, docx |-> <<>>, story |-> <<>>,
          buttons |-> <<"Markdown">>, error |-> fault]
    ELSE IF fault = "pdf"
    THEN [md_bytes |-> e.md_bytes, docx |-> e.docx, story |-> <<>>,
          buttons |-> <<"Markdown", "Word">>, error |-> fault]
    ELSE [md_bytes |-> e.md_bytes, docx |-> e.docx, story |-> e.story,
          buttons |-> <<"Markdown", "Word", "PDF">>, error |-> "none"]

\* the try block step by step, e being the exports of the report: the
\* Markdown bytes, the Word buffer, the PDF buffer, then the three
\* st.download_button calls; an exception leaves the block for the except
\* handler, which creates no button
DownloadTry(e, fault) ==
    IF fault = "docx"
    THEN [md_bytes |-> e.md_bytes, docx |-> <<>>, story |-> <<>>,
          buttons |-> <<>>, error |-> fault]
    ELSE IF fault = "pdf"
    THEN [md_bytes |-> e.md_bytes, docx |-> e.docx, story |-> <<>>,
          buttons |-> <<>>, error |-> fault]
    ELSE [md_bytes |-> e.md_bytes, docx |-> e.docx, story |-> e.story,
          buttons |-> <<"Markdown", "Word", "PDF">>, error |-> "none"]

\* a script run with a stored, non-empty report whose export preparation
\* does not raise
RenderExports ==
    /\ final_report_md[1] # <<>>
    /\ \E e \in {PrepareExports(final_report_md[1])} :
       \E t \in {DownloadTry(e, "none")} :
         run' = [rendered |-> TRUE, report_md |-> final_report_md,
                 md_bytes |-> t.md_bytes, docx |-> t.docx, story |-> t.story,
                 buttons |-> t.buttons, error |-> t.error]
    /\ UNCHANGED <<structured_text, raw_text, last_file_id,
                   processing_complete, demo_mode, final_report_md,
                   demo_checkbox, uploaded_file, page, pipeline_file,
                   pipeline_text>>

\* what the try block can have built when python-docx or reportlab raises:
\* the Markdown bytes and the Word paragraphs, never the PDF
ExportsBeforePdf(report_md) ==
    [md_bytes |-> encode_utf8(report_md),
     docx |-> split_lines(report_md),
     story |-> <<>>]

\* a script run with a stored, non-empty report in which building the Word
\* document or the PDF raises
ExportFails ==
    /\ final_report_md[1] # <<>>
    /\ \E e \in {ExportsBeforePdf(final_report_md[1])} :
       \E fault \in RenderFaults :
       \E t \in {DownloadTry(e, fault)} :
         run' = [rendered |-> FALSE, report_md |-> final_report_md,
                 md_bytes |-> t.md_bytes, docx |-> t.docx, story |-> t.story,
                 buttons |-> t.buttons, error |-> t.error]
    /\ UNCHANGED <<structured_text, raw_text, last_file_id,
                   processing_complete, demo_mode, final_report_md,
                   demo_checkbox, uploaded_file, page, pipeline_file,
                   pipeline_text>>

NextRender == RenderExports \/ ExportFails

SpecRender == InitRender /\ [][NextRender]_vars

\* C11: the Word document receives exactly one paragraph per line of the
\* report split on "\n", in input order and with the line text unchanged:
\* no paragraph holds a line end and the paragraphs joined by line ends are
\* the report (blank lines, '##' lines and '|' lines included).
C11_DocxOneParagraphPerLine ==
    run.rendered =>
        /\ \A k \in 1..Len(run.docx) : ~Contains(run.docx[k], "\n")
        /\ JoinLines(run.docx) = final_report_md[1]

\* C11 witness: a report of three lines, a blank one, a '##' one and a '|'
\* one, has been rendered into three paragraphs
C11_Witness ==
    /\ run.rendered
    /\ Len(run.docx) = 3
    /\ \E i, j, k \in 1..3 :
         /\ run.docx[i] = <<>>
         /\ HasAt(run.docx[j], 1, <<"#","#">>)
         /\ Contains(run.docx[k], "|")

\* the lines of the stored report, as the PDF renderer splits them
ReportLines == SplitOnFrom(final_report_md[1], 1, "\n")

\* the input line i contributes a row to a table
IsRowLine(i) ==
    /\ Contains(ReportLines[i], "|")
    /\ ~HasAt(Strip(ReportLines[i]), 1, <<"|","-","-">>)
    /\ TableCells(Strip(ReportLines[i])) # <<>>

\* the indices of the input lines that contribute a row to a table
RowLines == { i \in 1..Len(ReportLines) : IsRowLine(i) }

\* the input lines the rows of the table t come from: the first Len(t.data)
\* row lines from the table's first line on
RowLinesOf(t) ==
    { i \in RowLines :
        /\ i >= t.line
        /\ Cardinality({ x \in RowLines : t.line <= x /\ x <= i }) <= Len(t.data) }

\* the tables of the rendered story
StoryTables ==
    { run.story[k] : k \in { j \in 1..Len(run.story) : run.story[j].kind = "Table" } }

\* C12: a table run is closed by the first line without '|', whatever that
\* line is: no table of the story holds rows from two groups of '|' lines
\* that a line without '|' separates.
C12_TableRunClosedByAnyLine ==
    run.rendered =>
        \A t \in StoryTables :
            \A i, k \in RowLinesOf(t) :
                \A j \in i..k : Contains(ReportLines[j], "|")

\* C13: the PDF body preserves input order: the blocks of the story follow
\* one another in the order of the input lines they come from (a table
\* counts from its first row's line); a table that precedes a blank line
\* and a '## ' heading is thus placed before that spacer and that heading.
C13_StoryPreservesInputOrder ==
    run.rendered =>
        \A a, b \in 1..Len(run.story) :
            a < b => run.story[a].line <= run.story[b].line

\* the pieces of the input line i between its '|' delimiters
Pieces(i) == SplitOnFrom(ReportLines[i], 1, "|")

\* line i has the form '| c1 | ... | ck |' with non-empty cells: it starts
\* and ends with '|' and every cell is set off from its delimiters by a
\* blank on either side
IsRowOfCells(i, k) ==
    /\ Len(Pieces(i)) = k + 2
    /\ k >= 1
    /\ Pieces(i)[1] = <<>>
    /\ Pieces(i)[k + 2] = <<>>
    /\ \A c \in 2..(k + 1) :
         /\ Strip(Pieces(i)[c]) # <<>>
         /\ Pieces(i)[c][1] = " "
         /\ Pieces(i)[c][Len(Pieces(i)[c])] = " "

\* the report is one run of rows of k cells each
IsRunOfRows(k) == \A i \in 1..Len(ReportLines) : IsRowOfCells(i, k)

\* the rows of the example
ExampleRows ==
    << <<"|"," ","K","P","I"," ","|"," ","V","a","l","u","e"," ","|">>,
       <<"|"," ","R","e","v","e","n","u","e"," ","|"," ","$","4","5",".","2"," ","m","i","l","l","i","o","n"," ","|">>,
       <<"|"," ","M","a","r","g","i","n"," ","|"," ","7","1","%"," ","|">> >>

\* the grid of the example
ExampleGrid ==
    << << <<"K","P","I">>, <<"V","a","l","u","e">> >>,
       << <<"R","e","v","e","n","u","e">>,
          <<"$","4","5",".","2"," ","m","i","l","l","i","o","n">> >>,
       << <<"M","a","r","g","i","n">>, <<"7","1","%">> >> >>

\* C14: for a run of N lines '| c1 | ... | ck |' with non-empty cells the
\* story holds one table whose grid has N rows and k columns, every cell
\* being the trimmed text of the cell at the same position of its line, the
\* first row (the header row) coming from the first line; the rows
\* '| KPI | Value |', '| Revenue | $45.2 million |', '| Margin | 71% |' give
\* a 3 x 2 grid with header ['KPI','Value'].
C14_TableParsing ==
    run.rendered =>
        /\ \A k \in 1..3 :
             IsRunOfRows(k) =>
                 /\ Cardinality(StoryTables) = 1
                 /\ \A t \in StoryTables :
                      /\ Len(t.data) = Len(ReportLines)
                      /\ \A i \in 1..Len(t.data) :
                           /\ Len(t.data[i]) = k
                           /\ \A c \in 1..k :
                                t.data[i][c] = Strip(Pieces(i)[c + 1])
        /\ ReportLines = ExampleRows =>
               \E t \in StoryTables :
                   /\ t.data = ExampleGrid
                   /\ t.data[1] = << <<"K","P","I">>, <<"V","a","l","u","e">> >>

\* C14 witness: the three rows of the example have been rendered
C14_Witness ==
    /\ run.rendered
    /\ ReportLines = ExampleRows
    /\ IsRunOfRows(2)
    /\ Cardinality(StoryTables) = 1

\* the cells of line i when only the empty first and last pieces of the
\* split are discarded
InnerCells(i) ==
    LET cells == [c \in 1..Len(Pieces(i)) |-> Strip(Pieces(i)[c])]
        first == IF cells[1] = <<>> THEN 2 ELSE 1
        last  == IF cells[Len(cells)] = <<>> THEN Len(cells) - 1 ELSE Len(cells)
    IN  SubSeq(cells, first, last)

\* every line of the report is a table row line
AllRowLines ==
    \A i \in 1..Len(ReportLines) :
        /\ Contains(ReportLines[i], "|")
        /\ ~HasAt(Strip(ReportLines[i]), 1, <<"|","-","-">>)

\* C15: of the cells a row is split into, only the empty leading and
\* trailing ones are discarded; an empty interior cell is kept, so the other
\* cells keep their column positions ('| A |  | B |' yields three cells).
C15_OnlyEdgeCellsDiscarded ==
    (run.rendered /\ AllRowLines) =>
        \A t \in StoryTables :
            t.data = SelectSeq([i \in 1..Len(ReportLines) |-> InnerCells(i)],
                               LAMBDA cells : cells # <<>>)

\* the number of non-blank cells of line i
ColumnCount(i) ==
    Cardinality({ c \in 1..Len(Pieces(i)) : Strip(Pieces(i)[c]) # <<>> })

\* the report is one table run of which every line is a row (a line with
\* '|' that does not start with '|--' and has a non-blank cell)
IsRunOfRowLines == AllRowLines /\ \A i \in 1..Len(ReportLines) : ColumnCount(i) >= 1

\* two rows of the run differ in their column counts
IsRagged == \E i, j \in 1..Len(ReportLines) : ColumnCount(i) # ColumnCount(j)

BodyParagraphsOf(i) ==
    { k \in 1..Len(run.story) :
        /\ run.story[k].kind = "Paragraph"
        /\ run.story[k].style = "body_style"
        /\ run.story[k].line = i }

\* C17: every non-blank input line that is not a '## ' heading and holds no
\* '|' is rendered as exactly one body paragraph with that line's text; no
\* such line is dropped.
C17_EveryPlainLineIsParagraph ==
    run.rendered =>
        \A i \in 1..Len(ReportLines) :
            ( /\ Strip(ReportLines[i]) # <<>>
              /\ ~HasAt(Strip(ReportLines[i]), 1, <<"#","#"," ">>)
              /\ ~Contains(ReportLines[i], "|") )
            => /\ Cardinality(BodyParagraphsOf(i)) = 1
               /\ \A k \in BodyParagraphsOf(i) :
                    run.story[k].text = Strip(ReportLines[i])

\* C20: in every run that renders exports the Markdown bytes, the Word
\* document and the PDF story are derived from one value of the stored
\* report, the one read at the start of the run; the run leaves the stored
\* report as it was, and an export of an earlier run is never extended: each
\* export is that of the report alone.
C20_ExportsFromOneSnapshot ==
    [][ run'.rendered =>
          /\ final_report_md' = final_report_md
          /\ run'.report_md = final_report_md
          /\ Utf8Decode(run'.md_bytes) = final_report_md[1]
          /\ JoinLines(run'.docx) = final_report_md[1]
          /\ Len(run'.docx) = Len(SplitOnFrom(final_report_md[1], 1, "\n"))
          /\ run'.story = create_professional_pdf(final_report_md[1]) ]_vars

\* C20 witness: the three exports of a report of several lines with a table
\* have been rendered
C20_Witness ==
    /\ run.rendered
    /\ run.report_md = final_report_md
    /\ Len(run.md_bytes) > 0
    /\ Len(run.docx) >= 2
    /\ StoryTables # {}

(***************************************************************************)
(* clean_ai_output alone (specification SpecClean): the completion text is *)
(* drawn by the initial predicate and normalised by the one action.        *)
(***************************************************************************)
MaxTokens == 3

\* pieces a completion is made of
Tokens ==
    { <<"$">>, <<"$","3",".">>, <<".">>, <<" ">>,
      <<"$","3",".","2">>,
      <<"2","2">>,
      <<"m","i","l","l","i","o","n">>,
      <<"t","h","o","u","s","a","n","d">>,
      <<"p","e","r","c","e","n","t">>,
      <<"F","Y","2","0","2","4">>,
      <<"R","e","v","e","n","u","e">> }

RECURSIVE Concat(_)
Concat(ts) == IF ts = <<>> THEN <<>> ELSE Head(ts) \o Concat(Tail(ts))

Completions ==
    UNION { { Concat(ts) : ts \in [1..n -> Tokens] } : n \in 0..MaxTokens }

InitClean ==
    /\ structured_text = "cleaned text"
    /\ raw_text = "ocr text"
    /\ last_file_id = None
    /\ processing_complete = FALSE
    /\ demo_mode = FALSE
    /\ final_report_md = None
    /\ demo_checkbox = FALSE
    /\ uploaded_file = None
    /\ page = "Executive Summary"
    /\ \E text \in Completions :
         run = [text |-> text, cleaned |-> FALSE, out |-> <<>>]
    /\ pipeline_file = None
    /\ pipeline_text = None

\* the completion is passed through clean_ai_output
CleanCompletion ==
    /\ ~run.cleaned
    /\ \E out \in {clean_ai_output(run.text)} :
         run' = [run EXCEPT !.cleaned = TRUE, !.out = out]
    /\ UNCHANGED <<structured_text, raw_text, last_file_id,
                   processing_complete, demo_mode, final_report_md,
                   demo_checkbox, uploaded_file, page, pipeline_file,
                   pipeline_text>>

NextClean == CleanCompletion

SpecClean == InitClean /\ [][NextClean]_vars

\* C18: clean_ai_output is idempotent: applied to its own output it returns
\* that output unchanged.
C18_NormalizerIdempotent ==
    run.cleaned => clean_ai_output(run.out) = run.out

\* C18 witness: a completion that the normaliser changed has been cleaned
C18_Witness ==
    /\ run.cleaned
    /\ run.out # run.text
    /\ Len(run.out) > Len(run.text) + 1

\* the positions of s after which the normaliser has to put a space: a
\* digit followed by an ASCII letter; the '.' that ends a number followed by
\* 'percent'; the '.' that ends a '$' amount followed by a scale word
IsAmountDot(s, p) ==
    /\ s[p] = "."
    /\ \E d \in 2..(p - 1) :
         /\ s[d - 1] = "$"
         /\ \A j \in d..(p - 1) : IsDigit(s[j])

GapPositions(s) ==
    { p \in 1..(Len(s) - 1) :
        \/ IsDigit(s[p]) /\ IsAsciiLetter(s[p + 1])
        \/ /\ s[p] = "."
           /\ p > 1
           /\ IsDigit(s[p - 1])
           /\ HasAt(s, p + 1, PercentWord)
        \/ /\ IsAmountDot(s, p)
           /\ \E w \in ScaleWords : HasAt(s, p + 1, w) }

\* s with one space put after each of the positions of g
RECURSIVE WithSpaces(_, _, _)
WithSpaces(s, g, i) ==
    IF i > Len(s) THEN <<>>
    ELSE <<s[i]>> \o (IF i \in g THEN <<" ">> ELSE <<>>) \o WithSpaces(s, g, i + 1)

\* C19: the output of clean_ai_output holds no digit immediately followed
\* by an ASCII letter; it is the input with exactly one space put between a
\* '$' amount and the million/billion/thousand that directly follows it,
\* between a number and the 'percent' that directly follows it and at every
\* other digit/letter boundary, and nothing else changed; '$3.2million'
\* gives '$3.2 million', '22percent' gives '22 percent' and 'FY2024Revenue'
\* gives 'FY2024 Revenue'.
C19_NormalizerCorrect ==
    run.cleaned =>
        /\ \A i \in 1..(Len(run.out) - 1) :
             ~(IsDigit(run.out[i]) /\ IsAsciiLetter(run.out[i + 1]))
        /\ run.out = WithSpaces(run.text, GapPositions(run.text), 1)
        /\ run.text = <<"$","3",".","2","m","i","l","l","i","o","n">>
             => run.out = <<"$","3",".","2"," ","m","i","l","l","i","o","n">>
        /\ run.text = <<"2","2","p","e","r","c","e","n","t">>
             => run.out = <<"2","2"," ","p","e","r","c","e","n","t">>
        /\ run.text = <<"F","Y","2","0","2","4","R","e","v","e","n","u","e">>
             => run.out = <<"F","Y","2","0","2","4"," ","R","e","v","e","n","u","e">>

\* C19 witness: an amount that ends with '.' directly followed by a scale
\* word has been cleaned, a space put between the two
C19_Witness ==
    /\ run.cleaned
    /\ HasAt(run.text, 1, <<"$","3",".","t","h","o","u","s","a","n","d">>)
    /\ HasAt(run.out, 1, <<"$","3","."," ","t","h","o","u","s","a","n","d">>)
    /\ 3 \in GapPositions(run.text)

(***************************************************************************)
(* Further properties of the session (specification Spec)                  *)
(***************************************************************************)
\* the heading of the section a call of the report handler stands for
HeadingOfCall(c) ==
    IF c.op = "Report: Executive Summary" THEN ExecHeading
    ELSE IF c.op = "Report: KPIs" THEN KpiHeading
    ELSE ThemeHeading(c.theme)

\* the sections the calls of one run produced, one after the other
RECURSIVE SectionsOfCalls(_)
SectionsOfCalls(calls) ==
    IF calls = <<>> THEN <<>>
    ELSE (IF Head(calls).answer # <<>>
          THEN HeadingOfCall(Head(calls)) \o clean_ai_output(Head(calls).answer)
                   \o <<"\n","\n">>
          ELSE <<>>)
         \o SectionsOfCalls(Tail(calls))

\* the last run was a "Generate Full Report" action that made calls
IsReportRun(r) == r.calls # <<>> /\ r.calls[1].op \notin AnalysisOps

\* C21: a "Generate Full Report" action stores a report that holds exactly
\* the sections its own calls produced and nothing of the report stored
\* before; when no call produced text the stored report is the empty string
\* and the run offers no download.
C21_ReportOverwrittenWholesale ==
    [][ IsReportRun(run') =>
          /\ final_report_md' = Some(SectionsOfCalls(run'.calls))
          /\ final_report_md' = Some(<<>>) => run'.export = NoExport ]_vars

\* C21 witness: a "Generate Full Report" action whose call failed left the
\* empty report and no download
C21_Witness ==
    /\ IsReportRun(run)
    /\ run.calls[1].failed
    /\ final_report_md = Some(<<>>)
    /\ run.export = NoExport

(***************************************************************************)
(* Further properties of the exports (specification SpecRender)            *)
(***************************************************************************)
\* the rows of the tables of the story, table after table
EmittedRows ==
    LET tables == SelectSeq(run.story, LAMBDA f : f.kind = "Table")
    IN  Concat([k \in 1..Len(tables) |-> tables[k].data])

\* the non-blank cells of the input line i, trimmed
CellsOfLine(i) ==
    SelectSeq([c \in 1..Len(Pieces(i)) |-> Strip(Pieces(i)[c])],
              LAMBDA c : c # <<>>)

\* the rows the line loop appends to table_data, in input order
ParsedRows ==
    LET at == SelectSeq([i \in 1..Len(ReportLines) |-> i],
                        LAMBDA i : IsRowLine(i))
    IN  [k \in 1..Len(at) |-> CellsOfLine(at[k])]

\* line i closes an open table run: it is not blank, not a '## ' heading and
\* holds no '|'
ClosesRun(i) ==
    /\ Strip(ReportLines[i]) # <<>>
    /\ ~HasAt(Strip(ReportLines[i]), 1, <<"#","#"," ">>)
    /\ ~Contains(ReportLines[i], "|")

\* the input ends inside a table run that holds a row
EndsInOpenRun ==
    \E r \in 1..Len(ReportLines) :
        /\ IsRowLine(r)
        /\ \A i \in (r + 1)..Len(ReportLines) : ~IsRowLine(i) /\ ~ClosesRun(i)

\* C22: no parsed row is lost or duplicated: the rows of the emitted tables,
\* taken table after table, are the rows appended to table_data, each once
\* and in input order; and when the input ends inside an open table run, the
\* story ends with the table of that run.
C22_NoRowLostOrDuplicated ==
    run.rendered =>
        /\ EmittedRows = ParsedRows
        /\ EndsInOpenRun =>
             /\ run.story[Len(run.story)].kind = "Table"
             /\ LET t == run.story[Len(run.story)]
                IN  t.data[Len(t.data)] = ParsedRows[Len(ParsedRows)]

\* C22 witness: a run closed by a paragraph and a second run open at the end
\* of the input have been rendered as two tables
C22_Witness ==
    /\ run.rendered
    /\ EndsInOpenRun
    /\ Cardinality({ k \in 1..Len(run.story) : run.story[k].kind = "Table" }) = 2
    /\ \E i \in 1..Len(ReportLines) : ClosesRun(i)

(***************************************************************************)
(* The cache key alone (specification SpecKey): two uploads are drawn by   *)
(* the initial predicate, the one action computes their keys.              *)
(***************************************************************************)
MaxFileSize == 11

\* names of uploads (the uploader takes PDFs) with and without underscores
\* and digits
KeyNames ==
    { <<"r",".","p","d","f">>,
      <<"r","_","1",".","p","d","f">>,
      <<"r","_",".","p","d","f">>,
      <<"r",".","p","d","f","_","1",".","p","d","f">>,
      <<"1",".","p","d","f">>,
      <<"_","1",".","p","d","f">> }

KeyFiles == [name : KeyNames, size : 0..MaxFileSize]

InitKey ==
    /\ structured_text = ""
    /\ raw_text = ""
    /\ last_file_id = None
    /\ processing_complete = FALSE
    /\ demo_mode = FALSE
    /\ final_report_md = None
    /\ demo_checkbox = FALSE
    /\ uploaded_file = None
    /\ page = "About This Project"
    /\ \E a, b \in KeyFiles :
         run = [a |-> a, b |-> b, keyed |-> FALSE, id_a |-> <<>>, id_b |-> <<>>]
    /\ pipeline_file = None
    /\ pipeline_text = None

\* current_file_id is computed for each of the two uploads
ComputeKeys ==
    /\ ~run.keyed
    /\ run' = [run EXCEPT !.keyed = TRUE,
                          !.id_a = FileId(run.a),
                          !.id_b = FileId(run.b)]
    /\ UNCHANGED <<structured_text, raw_text, last_file_id,
                   processing_complete, demo_mode, final_report_md,
                   demo_checkbox, uploaded_file, page, pipeline_file,
                   pipeline_text>>

NextKey == ComputeKeys

SpecKey == InitKey /\ [][NextKey]_vars

\* C23: the keys of two uploads are equal if and only if their names are
\* equal and their sizes are equal, names with underscores or digits
\* included.
C23_KeyInjective ==
    run.keyed =>
        (run.id_a = run.id_b <=>
            (run.a.name = run.b.name /\ run.a.size = run.b.size))

\* C23 witness: the keys of 'r_1.pdf' of size 1 and of 'r.pdf' of size 11,
\* which differ, have been computed
C23_Witness ==
    /\ run.keyed
    /\ run.a = [name |-> <<"r","_","1",".","p","d","f">>, size |-> 1]
    /\ run.b = [name |-> <<"r",".","p","d","f">>, size |-> 11]
    /\ run.id_a # run.id_b

(***************************************************************************)
(* The except handler of safe_ai_call alone (specification SpecError): the *)
(* text of the exception is drawn by the initial predicate, the one action *)
(* is the failing call.                                                    *)
(***************************************************************************)
MaxErrorTokens == 3

UpperCase ==
    <<"A","B","C","D","E","F","G","H","I","J","K","L","M",
      "N","O","P","Q","R","S","T","U","V","W","X","Y","Z">>

LowerCase ==
    <<"a","b","c","d","e","f","g","h","i","j","k","l","m",
      "n","o","p","q","r","s","t","u","v","w","x","y","z">>

\* str.lower(), for ASCII text
ToLower(c) ==
    IF \E k \in 1..26 : UpperCase[k] = c
    THEN LowerCase[CHOOSE k \in 1..26 : UpperCase[k] = c]
    ELSE c

Lower(s) == [k \in 1..Len(s) |-> ToLower(s[k])]

\* w in s
In(w, s) == \E i \in 1..Len(s) : HasAt(s, i, w)

\* variant: the authentication test comes before the rate limit test
ErrorWarning_AuthFirst(e) ==
    IF In(<<"a","u","t","h","e","n","t","i","c","a","t","i","o","n">>, Lower(e))
          \/ In(<<"4","0","1">>, e)
    THEN "Authentication Error"
    ELSE IF In(<<"r","a","t","e","_","l","i","m","i","t">>, Lower(e))
          \/ In(<<"4","2","9">>, e)
    THEN "Rate Limit Reached"
    ELSE IF In(<<"n","o","t"," ","f","o","u","n","d">>, Lower(e))
          \/ In(<<"4","0","4">>, e)
    THEN "Deployment Not Found"
    ELSE IF In(<<"t","i","m","e","o","u","t">>, Lower(e))
    THEN "Request Timeout"
    ELSE "Unexpected Error"

\* the if/elif chain over str(e): the warning that is shown
ErrorWarning(e) ==
    IF In(<<"r","a","t","e","_","l","i","m","i","t">>, Lower(e))
          \/ In(<<"4","2","9">>, e)
    THEN "Rate Limit Reached"
    ELSE IF In(<<"a","u","t","h","e","n","t","i","c","a","t","i","o","n">>, Lower(e))
          \/ In(<<"4","0","1">>, e)
    THEN "Authentication Error"
    ELSE IF In(<<"n","o","t"," ","f","o","u","n","d">>, Lower(e))
          \/ In(<<"4","0","4">>, e)
    THEN "Deployment Not Found"
    ELSE IF In(<<"t","i","m","e","o","u","t">>, Lower(e))
    THEN "Request Timeout"
    ELSE "Unexpected Error"

\* the except branch: st.error, one st.warning, the tips, return ""
ExceptHandler(e) ==
    [error |-> "Failed", warnings |-> <<ErrorWarning(e)>>,
     returned |-> safe_ai_call([ok |-> FALSE, text |-> <<>>]).text]

\* pieces of the text of an exception
ErrorTokens ==
    { <<"R","a","t","e","_","L","i","m","i","t">>,
      <<"4","2","9">>,
      <<"A","u","t","h","e","n","t","i","c","a","t","i","o","n">>,
      <<"4","0","1">>,
      <<"N","o","t"," ","F","o","u","n","d">>,
      <<"4">>,
      <<"0","4">>,
      <<"T","I","M","E","O","U","T">>,
      <<"E","r","r","o","r"," ">>,
      <<"r","a","t","e"," ","l","i","m","i","t">> }

ErrorTexts ==
    UNION { { Concat(ts) : ts \in [1..n -> ErrorTokens] } : n \in 0..MaxErrorTokens }

InitError ==
    /\ structured_text = "cleaned text"
    /\ raw_text = "ocr text"
    /\ last_file_id = None
    /\ processing_complete = FALSE
    /\ demo_mode = FALSE
    /\ final_report_md = None
    /\ demo_checkbox = FALSE
    /\ uploaded_file = None
    /\ page = "Executive Summary"
    /\ \E e \in ErrorTexts :
         run = [e |-> e, failed |-> FALSE, warnings |-> <<>>, returned |-> None]
    /\ pipeline_file = None
    /\ pipeline_text = None

\* client.chat.completions.create raises an exception whose text is run.e
GenerationFails ==
    /\ ~run.failed
    /\ \E h \in {ExceptHandler(run.e)} :
         run' = [run EXCEPT !.failed = TRUE, !.warnings = h.warnings,
                            !.returned = Some(h.returned)]
    /\ UNCHANGED <<structured_text, raw_text, last_file_id,
                   processing_complete, demo_mode, final_report_md,
                   demo_checkbox, uploaded_file, page, pipeline_file,
                   pipeline_text>>

NextError == GenerationFails

SpecError == InitError /\ [][NextError]_vars

\* the text e holds the word w, letters compared without regard to case
Mentions(e, w) ==
    \E i \in 1..(Len(e) - Len(w) + 1) :
        \A k \in 1..Len(w) :
            \/ e[i + k - 1] = w[k]
            \/ \E j \in 1..26 : LowerCase[j] = w[k] /\ UpperCase[j] = e[i + k - 1]

\* the text e holds the status code w
HasCode(e, w) ==
    \E i \in 1..(Len(e) - 2) : <<e[i], e[i + 1], e[i + 2]>> = w

IsRateLimit(e) ==
    Mentions(e, <<"r","a","t","e","_","l","i","m","i","t">>) \/ HasCode(e, <<"4","2","9">>)

IsAuthentication(e) ==
    Mentions(e, <<"a","u","t","h","e","n","t","i","c","a","t","i","o","n">>)
        \/ HasCode(e, <<"4","0","1">>)

IsNotFound(e) ==
    Mentions(e, <<"n","o","t"," ","f","o","u","n","d">>) \/ HasCode(e, <<"4","0","4">>)

IsTimeout(e) == Mentions(e, <<"t","i","m","e","o","u","t">>)

\* C24: a failed generation call reports exactly one error class, chosen by
\* precedence over the text of the error: rate limit, then authentication,
\* then deployment not found, then timeout, and 'unexpected error' only when
\* none of them matches; the call returns the empty string in every case.
C24_OneErrorClassByPrecedence ==
    run.failed =>
        /\ Len(run.warnings) = 1
        /\ run.returned = Some(<<>>)
        /\ IsRateLimit(run.e) => run.warnings[1] = "Rate Limit Reached"
        /\ (~IsRateLimit(run.e) /\ IsAuthentication(run.e))
              => run.warnings[1] = "Authentication Error"
        /\ (~IsRateLimit(run.e) /\ ~IsAuthentication(run.e) /\ IsNotFound(run.e))
              => run.warnings[1] = "Deployment Not Found"
        /\ (~IsRateLimit(run.e) /\ ~IsAuthentication(run.e) /\ ~IsNotFound(run.e)
              /\ IsTimeout(run.e))
              => run.warnings[1] = "Request Timeout"
        /\ (~IsRateLimit(run.e) /\ ~IsAuthentication(run.e) /\ ~IsNotFound(run.e)
              /\ ~IsTimeout(run.e))
              => run.warnings[1] = "Unexpected Error"

\* C24 witness: a failure whose text names an authentication error and the
\* code 429 has been reported as a rate limit
C24_Witness ==
    /\ run.failed
    /\ IsAuthentication(run.e)
    /\ HasCode(run.e, <<"4","2","9">>)
    /\ IsTimeout(run.e)
    /\ run.warnings = <<"Rate Limit Reached">>

(***************************************************************************)
(* Further properties of the report handler (specification SpecAssemble)   *)
(***************************************************************************)
\* the calls of the run made for the section with heading h
CallsFor(h) ==
    { k \in 1..Len(run.calls) : HeadingOfCall(run.calls[k]) = h }

\* the section the k-th call stands for, as it is written when it has text
SectionOfCall(k) ==
    HeadingOfCall(run.calls[k]) \o clean_ai_output(run.calls[k].answer)
        \o <<"\n","\n">>

\* the headings of the sections selected in the widgets
SelectedHeadings ==
    (IF run.sel.include_exec THEN {ExecHeading} ELSE {})
        \cup (IF run.sel.include_kpis THEN {KpiHeading} ELSE {})
        \cup { ThemeHeading(run.sel.include_themes[k]) :
                 k \in 1..Len(run.sel.include_themes) }

AllHeadings ==
    {ExecHeading, KpiHeading} \cup { ThemeHeading(t) : t \in ReportThemes }

\* C25: "Generate Full Report" makes exactly one generation call per
\* selected section and none for the others, whatever the earlier calls
\* returned; a section (its '## ' heading followed by its body) is in the
\* report if and only if it was selected and its call returned text that is
\* not empty; a failed or empty section leaves no heading.
C25_OneCallPerSelectedSection ==
    final_report_md # None =>
        /\ \A h \in AllHeadings :
             Cardinality(CallsFor(h)) = IF h \in SelectedHeadings THEN 1 ELSE 0
        /\ Len(run.calls) = Cardinality(SelectedHeadings)
        /\ \A k \in 1..Len(run.calls) :
             /\ run.calls[k].failed <=> ~run.gen[k].ok
             /\ run.calls[k].answer # <<>> <=> Answered(run.gen, k)
             /\ run.calls[k].answer # <<>> <=> In(SectionOfCall(k), final_report_md[1])
        /\ \A h \in AllHeadings :
             In(h, final_report_md[1]) <=>
                 /\ h \in SelectedHeadings
                 /\ \E k \in CallsFor(h) : run.calls[k].answer # <<>>

\* C25 witness: three sections were selected, the first call failed, the
\* second returned the empty string, and the report holds the third section
\* alone
C25_Witness ==
    /\ final_report_md # None
    /\ Len(run.calls) = 3
    /\ run.calls[1].failed
    /\ ~run.calls[2].failed
    /\ run.calls[2].answer = <<>>
    /\ run.calls[3].answer # <<>>
    /\ final_report_md[1] = SectionOfCall(3)

(***************************************************************************)
(* Further properties of clean_ai_output (specification SpecClean)         *)
(***************************************************************************)
\* o is s with single spaces put in: going through o from position j and
\* through s from position i, every character of o is the next character of
\* s or a space put in, and no two spaces put in follow one another (put
\* tells whether o[j - 1] was put in)
RECURSIVE SpacesPutIn(_, _, _, _, _)
SpacesPutIn(s, i, o, j, put) ==
    IF j > Len(o) THEN i > Len(s)
    ELSE \/ /\ i <= Len(s)
            /\ s[i] = o[j]
            /\ SpacesPutIn(s, i + 1, o, j + 1, FALSE)
         \/ /\ o[j] = " "
            /\ ~put
            /\ SpacesPutIn(s, i, o, j + 1, TRUE)

\* s has a digit immediately followed by a letter, or a digit and a '.'
\* immediately followed by million, billion, thousand or percent
NeedsSpace(s) ==
    \/ \E p \in 1..(Len(s) - 1) : IsDigit(s[p]) /\ IsAsciiLetter(s[p + 1])
    \/ \E p \in 2..Len(s) :
         /\ s[p] = "."
         /\ IsDigit(s[p - 1])
         /\ \E w \in ScaleWords \cup {PercentWord} : HasAt(s, p + 1, w)

\* C26: clean_ai_output only puts in single spaces: its output without the
\* spaces it put in is the input, character for character and in order; an
\* input without a digit immediately followed by a letter and without a
\* digit and '.' immediately followed by million, billion, thousand or
\* percent is returned unchanged.
C26_OnlySpacesInserted ==
    run.cleaned =>
        /\ SpacesPutIn(run.text, 1, run.out, 1, FALSE)
        /\ ~NeedsSpace(run.text) => run.out = run.text

\* C26 witness: an input with a '$' and a '.' that needs no space has been
\* cleaned and returned as it was
C26_Witness ==
    /\ run.cleaned
    /\ ~NeedsSpace(run.text)
    /\ In(<<"$","3",".">>, run.text)
    /\ In(<<"m","i","l","l","i","o","n">>, run.text)
    /\ run.out = run.text

(***************************************************************************)
(* Further properties of the exports (specification SpecRender), second    *)
(* part                                                                    *)
(***************************************************************************)
\* C27: export availability is all or nothing: a run offers download
\* buttons only when the Markdown bytes, the Word paragraphs and the PDF
\* story of the report have all been built, and then it offers all three; a
\* run in which building the Word document or the PDF failed offers no
\* button, not even the Markdown one, although the Markdown bytes were
\* built.
C27_ExportsAllOrNothing ==
    [][ /\ run'.buttons # <<>> =>
              /\ run'.buttons = <<"Markdown", "Word", "PDF">>
              /\ run'.error = "none"
              /\ Len(run'.md_bytes) >= Len(final_report_md[1])
              /\ Len(run'.docx) = Len(ReportLines)
              /\ Len(run'.story) >= Len(TitlePage)
        /\ run'.error # "none" =>
              /\ run'.buttons = <<>>
              /\ Len(run'.md_bytes) >= Len(final_report_md[1])
              /\ run'.story = <<>> ]_vars

\* C27 witness: building the PDF failed after the Markdown bytes and the
\* Word paragraphs were built, and no button is offered
C27_Witness ==
    /\ run.error = "pdf"
    /\ run.md_bytes # <<>>
    /\ run.docx # <<>>
    /\ run.buttons = <<>>

\* line i is a table separator line: it begins with '|--'
IsSeparator(i) == HasAt(Strip(ReportLines[i]), 1, <<"|","-","-">>)

\* C28: a separator line beginning with '|--' is skipped: no block of the
\* story comes from it (no paragraph with the raw separator text), it adds
\* no row to a table, and it does not close the open run: the rows before
\* and after it are in one table.
C28_SeparatorSkipped ==
    run.rendered =>
        \A i \in 1..Len(ReportLines) :
            IsSeparator(i) =>
                /\ \A k \in 1..Len(run.story) : run.story[k].line # i
                /\ \A t \in StoryTables : i \notin RowLinesOf(t)
                /\ (i - 1 \in RowLines /\ i + 1 \in RowLines) =>
                      \E t \in StoryTables :
                          {i - 1, i + 1} \subseteq RowLinesOf(t)

(***************************************************************************)
(* Further properties of the session (specification Spec), second part     *)
(***************************************************************************)
\* C29: the stored report is written only by "Generate Full Report": a run
\* that processes an upload (with or without success), a change of the demo
\* checkbox, a change of page and a single-page analysis leave it as it
\* was, and a change happens only on the "Generate Report" page with the
\* widgets untouched; after another document has been processed the stored
\* report is still the one the download section prepares.
C29_ReportWrittenOnlyByGenerate ==
    [][ /\ ( \/ run'.ocr_called
             \/ run'.stopped
             \/ demo_checkbox' # demo_checkbox
             \/ uploaded_file' # uploaded_file
             \/ page' # page
             \/ (Len(run'.calls) = 1 /\ run'.calls[1].op \in AnalysisOps) )
              => final_report_md' = final_report_md
        /\ final_report_md' # final_report_md =>
              /\ page = "Generate Report"
              /\ page' = "Generate Report"
              /\ \A k \in 1..Len(run'.calls) : run'.calls[k].op \notin AnalysisOps
        /\ ( /\ run'.ocr_called
             /\ ~run'.stopped
             /\ final_report_md # None
             /\ final_report_md[1] # <<>> )
              => /\ run'.export.status # "none"
                 /\ run'.export.report_md = final_report_md ]_vars

\* C29 witness: a new upload has just been processed while a report
\* generated earlier is stored, and that report is offered for download
C29_Witness ==
    /\ run.ocr_called
    /\ ~run.stopped
    /\ final_report_md # None
    /\ final_report_md[1] # <<>>
    /\ run.export.status = "ok"
    /\ run.export.report_md = final_report_md

\* C30: processing_complete is true if and only if last_file_id is not
\* None; the two are written only by a run in which OCR and cleaning both
\* succeeded, and neither is ever reset: once set, the flag stays true and
\* the key stays a key, through demo mode, failed uploads and later uploads.
C30_FlagIffKeySet ==
    [][ /\ processing_complete <=> last_file_id # None
        /\ processing_complete' <=> last_file_id' # None
        /\ (last_file_id' # last_file_id \/ processing_complete' # processing_complete)
              => /\ run'.ocr_called
                 /\ run'.clean_called
                 /\ ~run'.stopped
        /\ processing_complete => processing_complete'
        /\ last_file_id # None => last_file_id' # None ]_vars

\* C30 witness: OCR has just failed for a new upload in a session that
\* processed an upload before; the flag and the key are still set
C30_Witness ==
    /\ run.ocr_called
    /\ ~run.clean_called
    /\ run.stopped
    /\ processing_complete
    /\ last_file_id # None

=============================================================================
